---- MODULE Spec2Model ----
(***************************************************************************)
(* threadverse: the invocations of the callable returned by createPool.    *)
(*                                                                         *)
(* Two variants of createWorker/createPool exist in the repository:        *)
(*   "node"  src/src/node/index.ts     (worker_threads, the exported one)  *)
(*   "web"   src/src/lib/web/index.ts  (browser Worker + synthetic         *)
(*                                      ExitEvent)                         *)
(* The model follows one Promise executor (one invocation): its closure    *)
(* variables retryCount / errorInstance, the promise, the retry timers,    *)
(* and every worker the invocation has created, each with its two timers,  *)
(* its abort listener, its event listeners and the events it has in        *)
(* flight towards the caller's thread.  Spec is one invocation; PoolSpec    *)
(* is two invocations of the same callable, interleaved.                   *)
(***************************************************************************)
EXTENDS Integers, Sequences, FiniteSets, TLC

\* Longest retriesWithIn array explored.
MaxRetries == 1

Variants == {"node", "web"}

\* retriesWithIn arrays: << >>, <<10>>, <<10, 20>>, ... (distinct delays, so
\* that the order in which they are consumed is observable).
RetryArrays == {[n \in 1..k |-> 10 * n] : k \in 0..MaxRetries}

\* startTime / timeout: 0 stands for "absent or 0" (both are falsy in the
\* tests `if (startTime)` and `if (timeout)`).
StartTimes == {0, 5}
Timeouts == {0, 50}

\* IRunnableOption, plus which variant of the library is in use.
Options ==
  [retriesWithIn : RetryArrays, startTime : StartTimes, timeout : Timeouts,
   signal : BOOLEAN]

VARIABLES
  variant,        \* "node" or "web"
  options,        \* the IRunnableOption given to createPool
  aborted,        \* options.signal.aborted
  retryCount,     \* closure variable of the invocation
  errorInstance,  \* closure variable of the invocation; 0 is undefined
  promise,        \* the Promise returned by the invocation
  workers,        \* every worker created by tryExecution, in order
  retryTimers,    \* number of pending setTimeout(tryExecution, ...) timers
  scheduled,      \* history: the delays given to setTimeout(tryExecution, _)
  logged,         \* history: the delays announced through logger
  preAborted,     \* history: the signal was aborted before the call
  abortSpawned,   \* history: Len(workers) when the abort event fired while
                  \* an isolate was active, 0 if that has not happened
  other           \* a second invocation of the same callable, if there is
                  \* one: its own closure variables, promise and workers

vars ==
  <<variant, options, aborted, retryCount, errorInstance, promise, workers,
    retryTimers, scheduled, logged, preAborted, abortSpawned, other>>

----------------------------------------------------------------------------
(* Values travelling through the invocation.  All are integers:            *)
(*   n        the value returned by the computation in attempt n           *)
(*   10 + n   the Error thrown by the computation in attempt n             *)
(*   20 + n   the Error of a runtime failure of the isolate of attempt n   *)
(*   100 + c  new Error(`Worker stopped with exit code ${c}`)              *)

Value(n) == n
ThrownError(n) == 10 + n
RuntimeError(n) == 20 + n
ExitCodeError(code) == 100 + code

\* new Promise(...): settles once, the first resolve/reject wins.
Pending == [state |-> "pending", val |-> 0]

resolve(p, v) ==
  IF p.state = "pending" THEN [state |-> "resolved", val |-> v] ELSE p

reject(p, e) ==
  IF p.state = "pending" THEN [state |-> "rejected", val |-> e] ELSE p

\* clearTimeout(t): only a pending timer changes.
clearTimeout(t) == IF t = "pending" THEN "cleared" ELSE t

----------------------------------------------------------------------------
(* createWorker: the worker record right after createWorker returns.       *)
(*   thread       "idle"     spawned, arguments not yet delivered          *)
(*                "running"  arguments delivered, computation in progress  *)
(*                "closing"  outcome posted, parentPort.close() under way  *)
(*                "stopped"  the isolate has ended (exitCode is final)     *)
(*                "exited"   node: the 'exit' event has been emitted       *)
(*   msg / err    "none" | "inflight" | "delivered" | "dropped"            *)
(*   onMsg, onErr, onExit    web: the { once: true } listeners of          *)
(*                tryExecution still registered                            *)
(*   abortL       the { once: true } abort listener is registered          *)
(*   posts        history: calls of worker.postMessage(params)             *)
(*   args         history: the isolate received the arguments              *)
(*   result       history: first outcome / runtime-error the caller saw    *)
(*   termBy       history: which terminate() call ended the isolate        *)
(*   abortSaw     history: "pending" when the abort listener ran while the *)
(*                start timer was pending                                  *)
(*   exitArg      history: the code exitHandler was called with, -1 none   *)
createWorker(opts) ==
  [thread       |-> IF opts.startTime # 0 THEN "idle" ELSE "running",
   exitCode     |-> 0,
   startTimer   |-> IF opts.startTime # 0 THEN "pending" ELSE "none",
   timeoutTimer |-> IF opts.timeout # 0 THEN "pending" ELSE "none",
   abortL       |-> opts.signal,
   msg          |-> "none",
   msgType      |-> "none",
   msgVal       |-> 0,
   err          |-> "none",
   errVal       |-> 0,
   onMsg        |-> TRUE,
   onErr        |-> TRUE,
   onExit       |-> TRUE,
   posts        |-> IF opts.startTime # 0 THEN 0 ELSE 1,
   args         |-> (opts.startTime = 0),
   result       |-> "none",
   termBy       |-> "none",
   abortSaw     |-> "none",
   exitArg      |-> -1]

Live(w) == w.thread \in {"idle", "running", "closing"}

\* worker.terminate(): ends a live isolate with exit status 1; a no-op on an
\* isolate that has already ended.  Under worker_threads the messages the
\* isolate had posted are still delivered (the ports are drained before
\* 'exit' is emitted); in the browser terminate() empties the queue of
\* messages posted by the isolate and not yet dispatched.
terminate(w, by) ==
  IF Live(w)
  THEN [w EXCEPT !.thread = "stopped",
                 !.exitCode = 1,
                 !.termBy = by,
                 !.msg = IF variant = "web" /\ @ = "inflight"
                         THEN "dropped" ELSE @]
  ELSE w

\* Mutant of postMessage: the arguments reach the isolate whatever state it
\* is in.
postMessageAnyState(w) ==
  [w EXCEPT !.posts = @ + 1,
            !.args = TRUE,
            !.thread = IF @ \in {"idle", "stopped"} THEN "running" ELSE @]

\* worker.postMessage(params): reaches only an isolate that is still waiting
\* for its arguments.
postMessage(w) ==
  [w EXCEPT !.posts = @ + 1,
            !.args = @ \/ w.thread = "idle",
            !.thread = IF @ = "idle" THEN "running" ELSE @]

----------------------------------------------------------------------------
\* What one invocation of the callable owns: the variables declared inside
\* its Promise executor, the promise, and what it has created.  NotCalled
\* is the record of an invocation that was never made.
NotCalled ==
  [retryCount |-> 0, errorInstance |-> 0, promise |-> Pending,
   workers |-> <<>>, retryTimers |-> 0, scheduled |-> <<>>, logged |-> <<>>,
   abortSpawned |-> 0]

\* The state right after the callable is invoked: the Promise executor has
\* run, which declares the closure variables and calls tryExecution once.
Called ==
  /\ variant \in Variants
  /\ options \in Options
  /\ aborted \in {FALSE, options.signal}
  /\ preAborted = aborted
  /\ retryCount = 0
  /\ errorInstance = 0
  /\ promise = Pending
  /\ workers = <<createWorker(options)>>
  /\ retryTimers = 0
  /\ scheduled = <<>>
  /\ logged = <<>>
  /\ abortSpawned = 0

\* The callable is invoked once.
Init ==
  /\ Called
  /\ other = NotCalled

\* const retriesWithInLength = retriesWithIn.length
retriesWithInLength == Len(options.retriesWithIn)

\* Mutants of exitHandler (each a plausible slip in lines 135-150).

\* rejects with the generic exit-code error even when an error was recorded
exitHandlerGenericError(code, ei, p) ==
  IF code = 0
  THEN /\ promise' = p
       /\ UNCHANGED <<retryCount, retryTimers, scheduled, logged>>
  ELSE IF retryCount < retriesWithInLength
  THEN /\ retryCount' = retryCount + 1
       /\ logged' = Append(logged, options.retriesWithIn[retryCount + 1])
       /\ scheduled' = Append(scheduled, options.retriesWithIn[retryCount + 1])
       /\ retryTimers' = retryTimers + 1
       /\ promise' = p
  ELSE /\ promise' = reject(p, ExitCodeError(code))
       /\ UNCHANGED <<retryCount, retryTimers, scheduled, logged>>

\* rejects on every failure, also when it schedules a retry
exitHandlerRejectEarly(code, ei, p) ==
  IF code = 0
  THEN /\ promise' = p
       /\ UNCHANGED <<retryCount, retryTimers, scheduled, logged>>
  ELSE IF retryCount < retriesWithInLength
  THEN /\ retryCount' = retryCount + 1
       /\ logged' = Append(logged, options.retriesWithIn[retryCount + 1])
       /\ scheduled' = Append(scheduled, options.retriesWithIn[retryCount + 1])
       /\ retryTimers' = retryTimers + 1
       /\ promise' = reject(p, IF ei # 0 THEN ei ELSE ExitCodeError(code))
  ELSE /\ promise' = reject(p, IF ei # 0 THEN ei ELSE ExitCodeError(code))
       /\ UNCHANGED <<retryCount, retryTimers, scheduled, logged>>

\* retryCount <= retriesWithInLength: one retry too many (the delay read
\* past the end of the array is undefined, taken as 0)
exitHandlerOneMore(code, ei, p) ==
  IF code = 0
  THEN /\ promise' = p
       /\ UNCHANGED <<retryCount, retryTimers, scheduled, logged>>
  ELSE IF retryCount <= retriesWithInLength
  THEN LET retryTimeout == IF retryCount < retriesWithInLength
                           THEN options.retriesWithIn[retryCount + 1]
                           ELSE 0
       IN /\ retryCount' = retryCount + 1
          /\ logged' = Append(logged, retryTimeout)
          /\ scheduled' = Append(scheduled, retryTimeout)
          /\ retryTimers' = retryTimers + 1
          /\ promise' = p
  ELSE /\ promise' = reject(p, IF ei # 0 THEN ei ELSE ExitCodeError(code))
       /\ UNCHANGED <<retryCount, retryTimers, scheduled, logged>>

\* retryCount + 1 < retriesWithInLength: gives up one retry early
exitHandlerStopsEarly(code, ei, p) ==
  IF code = 0
  THEN /\ promise' = p
       /\ UNCHANGED <<retryCount, retryTimers, scheduled, logged>>
  ELSE IF retryCount + 1 < retriesWithInLength
  THEN /\ retryCount' = retryCount + 1
       /\ logged' = Append(logged, options.retriesWithIn[retryCount + 1])
       /\ scheduled' = Append(scheduled, options.retriesWithIn[retryCount + 1])
       /\ retryTimers' = retryTimers + 1
       /\ promise' = p
  ELSE /\ promise' = reject(p, IF ei # 0 THEN ei ELSE ExitCodeError(code))
       /\ UNCHANGED <<retryCount, retryTimers, scheduled, logged>>

\* logs the retry notice on every failure, also when no retry is left
exitHandlerLogsAlways(code, ei, p) ==
  IF code = 0
  THEN /\ promise' = p
       /\ UNCHANGED <<retryCount, retryTimers, scheduled, logged>>
  ELSE IF retryCount < retriesWithInLength
  THEN /\ retryCount' = retryCount + 1
       /\ logged' = Append(logged, options.retriesWithIn[retryCount + 1])
       /\ scheduled' = Append(scheduled, options.retriesWithIn[retryCount + 1])
       /\ retryTimers' = retryTimers + 1
       /\ promise' = p
  ELSE /\ promise' = reject(p, IF ei # 0 THEN ei ELSE ExitCodeError(code))
       /\ logged' = Append(logged, 0)
       /\ UNCHANGED <<retryCount, retryTimers, scheduled>>

\* exitHandler(code), called with the errorInstance `ei` and the promise `p`
\* as they are at the call.
exitHandler(code, ei, p) ==
  IF code = 0
  THEN /\ promise' = p
       /\ UNCHANGED <<retryCount, retryTimers, scheduled, logged>>
  ELSE IF retryCount < retriesWithInLength
  THEN /\ retryCount' = retryCount + 1
       /\ logged' = Append(logged, options.retriesWithIn[retryCount + 1])
       /\ scheduled' = Append(scheduled, options.retriesWithIn[retryCount + 1])
       /\ retryTimers' = retryTimers + 1
       /\ promise' = p
  ELSE /\ promise' = reject(p, IF ei # 0 THEN ei ELSE ExitCodeError(code))
       /\ UNCHANGED <<retryCount, retryTimers, scheduled, logged>>

\* No exit event reaches exitHandler in this step.
noExit(p) ==
  /\ promise' = p
  /\ UNCHANGED <<retryCount, retryTimers, scheduled, logged>>

\* tryExecution, run by a retry timer (the first call is part of Init).
tryExecution ==
  /\ retryTimers > 0
  /\ retryTimers' = retryTimers - 1
  /\ workers' = Append(workers, createWorker(options))
  /\ UNCHANGED <<other, variant, options, aborted, retryCount, errorInstance,
                 promise, scheduled, logged, preAborted, abortSpawned>>

----------------------------------------------------------------------------
(* Timers and the abort listener set up by createWorker.                   *)

\* setTimeout(() => worker.postMessage(params), startTime)
startTimerFires(i) ==
  /\ workers[i].startTimer = "pending"
  /\ workers' = [workers EXCEPT
                   ![i] = [postMessage(@) EXCEPT !.startTimer = "fired"]]
  /\ UNCHANGED <<other, variant, options, aborted, retryCount, errorInstance,
                 promise, retryTimers, scheduled, logged, preAborted,
                 abortSpawned>>

\* Mutant of timeoutTimerFires: the callback clears the start timer but
\* does not terminate the worker.
timeoutTimerFiresNoTerminate(i) ==
  /\ workers[i].timeoutTimer = "pending"
  /\ workers' = [workers EXCEPT
                   ![i] = [@ EXCEPT !.timeoutTimer = "fired",
                                    !.startTimer = clearTimeout(@)]]
  /\ UNCHANGED <<other, variant, options, aborted, retryCount, errorInstance,
                 promise, retryTimers, scheduled, logged, preAborted,
                 abortSpawned>>

\* Mutant of timeoutTimerFires: the callback terminates the worker but
\* leaves the start timer armed.
timeoutTimerFiresKeepsStartTimer(i) ==
  /\ workers[i].timeoutTimer = "pending"
  /\ workers' = [workers EXCEPT
                   ![i] = [terminate(@, "timeout") EXCEPT
                             !.timeoutTimer = "fired"]]
  /\ UNCHANGED <<other, variant, options, aborted, retryCount, errorInstance,
                 promise, retryTimers, scheduled, logged, preAborted,
                 abortSpawned>>

\* setTimeout(() => { worker.terminate(); clearTimeout(startTimer); }, timeout)
timeoutTimerFires(i) ==
  /\ workers[i].timeoutTimer = "pending"
  /\ workers' = [workers EXCEPT
                   ![i] = [terminate(@, "timeout") EXCEPT
                             !.timeoutTimer = "fired",
                             !.startTimer = clearTimeout(@)]]
  /\ UNCHANGED <<other, variant, options, aborted, retryCount, errorInstance,
                 promise, retryTimers, scheduled, logged, preAborted,
                 abortSpawned>>

\* The signal's abort event: every registered listener runs once.  A
\* listener added to a signal that is already aborted never runs.
abort ==
  /\ options.signal
  /\ ~aborted
  /\ aborted' = TRUE
  /\ workers' = [i \in DOMAIN workers |->
                   IF workers[i].abortL
                   THEN [terminate(workers[i], "abort") EXCEPT
                           !.abortL = FALSE,
                           !.abortSaw = IF workers[i].startTimer = "pending"
                                        THEN "pending" ELSE "none"]
                   ELSE workers[i]]
  /\ abortSpawned' = IF \E i \in DOMAIN workers :
                          workers[i].abortL /\ Live(workers[i])
                     THEN Len(workers)
                     ELSE abortSpawned
  /\ UNCHANGED <<other, variant, options, retryCount, errorInstance, promise,
                 retryTimers, scheduled, logged, preAborted>>

----------------------------------------------------------------------------
(* The isolate: the script createWorker builds around the runnable.        *)

\* Mutant of succeed: the script closes the port without posting the result.
succeedWithoutPost(i) ==
  /\ workers[i].thread = "running"
  /\ workers[i].msg = "none"
  /\ workers' = [workers EXCEPT ![i] = [@ EXCEPT !.thread = "closing"]]
  /\ UNCHANGED <<other, variant, options, aborted, retryCount, errorInstance,
                 promise, retryTimers, scheduled, logged, preAborted,
                 abortSpawned>>

\* The runnable returns: postMessage(result), then parentPort.close().
succeed(i) ==
  /\ workers[i].thread = "running"
  /\ workers[i].msg = "none"
  /\ workers' = [workers EXCEPT ![i] = [@ EXCEPT !.thread = "closing",
                                                 !.msg = "inflight",
                                                 !.msgType = "success",
                                                 !.msgVal = Value(i)]]
  /\ UNCHANGED <<other, variant, options, aborted, retryCount, errorInstance,
                 promise, retryTimers, scheduled, logged, preAborted,
                 abortSpawned>>

\* The runnable throws or rejects.  web: caught, posted as an "error"
\* message, then close().  node: nothing catches it, the isolate dies of the
\* uncaught error ('error' event, exit status 1).
throw(i) ==
  /\ workers[i].thread = "running"
  /\ workers[i].msg = "none"
  /\ IF variant = "web"
     THEN workers' = [workers EXCEPT ![i] = [@ EXCEPT !.thread = "closing",
                                                      !.msg = "inflight",
                                                      !.msgType = "error",
                                                      !.msgVal = ThrownError(i)]]
     ELSE workers' = [workers EXCEPT ![i] = [@ EXCEPT !.thread = "stopped",
                                                      !.exitCode = 1,
                                                      !.err = "inflight",
                                                      !.errVal = ThrownError(i)]]
  /\ UNCHANGED <<other, variant, options, aborted, retryCount, errorInstance,
                 promise, retryTimers, scheduled, logged, preAborted,
                 abortSpawned>>

\* The isolate fails outside the runnable's own error channel (e.g. the
\* transplanted source does not parse, or an uncaught error in a callback).
\* node: the isolate dies, exit status 1.  web: an 'error' event on the
\* Worker object; a running isolate is not ended by it and may go on, one
\* whose script failed before the arguments arrived never runs.
crash(i) ==
  /\ workers[i].thread \in {"idle", "running"}
  /\ workers[i].err = "none"
  /\ workers' = [workers EXCEPT
                   ![i] = [@ EXCEPT !.thread = IF variant = "node" \/ @ = "idle"
                                               THEN "stopped" ELSE @,
                                    !.exitCode = IF variant = "node"
                                                 THEN 1 ELSE @,
                                    !.err = "inflight",
                                    !.errVal = RuntimeError(i)]]
  /\ UNCHANGED <<other, variant, options, aborted, retryCount, errorInstance,
                 promise, retryTimers, scheduled, logged, preAborted,
                 abortSpawned>>

\* parentPort.close() completes: the isolate ends by itself, status 0.
threadStop(i) ==
  /\ workers[i].thread = "closing"
  /\ workers' = [workers EXCEPT ![i] = [@ EXCEPT !.thread = "stopped"]]
  /\ UNCHANGED <<other, variant, options, aborted, retryCount, errorInstance,
                 promise, retryTimers, scheduled, logged, preAborted,
                 abortSpawned>>

----------------------------------------------------------------------------
(* Event handlers on the caller's thread.                                  *)

\* What the caller's listeners record on a worker when an outcome message
\* arrives: createWorker's listener clears both timers.
messageSeen(w) ==
  [w EXCEPT !.msg = "delivered",
            !.timeoutTimer = clearTimeout(@),
            !.startTimer = clearTimeout(@),
            !.result = IF @ # "none" THEN @
                       ELSE IF w.msgType = "success" THEN "success"
                       ELSE "cerror"]

\* What is recorded on a worker when its 'error' event arrives.
errorSeen(w, i) ==
  [w EXCEPT !.err = "delivered",
            !.result = IF @ # "none" THEN @
                       ELSE IF w.errVal = ThrownError(i) THEN "cerror"
                       ELSE "rterror"]

\* worker.dispatchEvent(new ExitEvent(code)) on a web worker: the
\* { once: true } 'exit' listener, if still registered, is consumed.
exitDispatched(w, code) ==
  IF w.onExit THEN [w EXCEPT !.onExit = FALSE, !.exitArg = code] ELSE w

\* 'message' event of worker i.
\*   node: createWorker's listener, then resolve.
\*   web:  createWorker's listener, then the { once: true } listener of
\*         tryExecution, which dispatches the ExitEvent synchronously.
onMessage(i) ==
  LET w == workers[i]
      seen == messageSeen(w)
  IN /\ w.msg = "inflight"
     /\ IF variant = "node"
        THEN /\ workers' = [workers EXCEPT ![i] = seen]
             /\ errorInstance' = errorInstance
             /\ noExit(resolve(promise, w.msgVal))
        ELSE IF ~w.onMsg
        THEN /\ workers' = [workers EXCEPT ![i] = seen]
             /\ errorInstance' = errorInstance
             /\ noExit(promise)
        ELSE IF w.msgType = "success"
        THEN /\ workers' = [workers EXCEPT
                              ![i] = [exitDispatched(seen, 0) EXCEPT
                                        !.onMsg = FALSE]]
             /\ errorInstance' = errorInstance
             /\ IF w.onExit
                THEN exitHandler(0, errorInstance, resolve(promise, w.msgVal))
                ELSE noExit(resolve(promise, w.msgVal))
        ELSE /\ workers' = [workers EXCEPT
                              ![i] = [exitDispatched(seen, 1) EXCEPT
                                        !.onMsg = FALSE]]
             /\ errorInstance' = w.msgVal
             /\ IF w.onExit
                THEN exitHandler(1, w.msgVal, promise)
                ELSE noExit(promise)
     /\ UNCHANGED <<other, variant, options, aborted, preAborted, abortSpawned>>

\* 'error' event of worker i.
\*   node: errorInstance = error.
\*   web:  the { once: true } listener: errorInstance = errorEvent.error,
\*         then dispatch ExitEvent(1).
onError(i) ==
  LET w == workers[i]
      seen == errorSeen(w, i)
  IN /\ w.err = "inflight"
     /\ IF variant = "node"
        THEN /\ workers' = [workers EXCEPT ![i] = seen]
             /\ errorInstance' = w.errVal
             /\ noExit(promise)
        ELSE IF ~w.onErr
        THEN /\ workers' = [workers EXCEPT ![i] = seen]
             /\ errorInstance' = errorInstance
             /\ noExit(promise)
        ELSE /\ workers' = [workers EXCEPT
                              ![i] = [exitDispatched(seen, 1) EXCEPT
                                        !.onErr = FALSE]]
             /\ errorInstance' = w.errVal
             /\ IF w.onExit
                THEN exitHandler(1, w.errVal, promise)
                ELSE noExit(promise)
     /\ UNCHANGED <<other, variant, options, aborted, preAborted, abortSpawned>>

\* node: 'exit' event of worker i, emitted once the isolate has ended and
\* the events it had posted have been delivered.  The browser's Worker has
\* no such event: there the only exit events are the dispatched ExitEvents.
onExit(i) ==
  LET w == workers[i]
  IN /\ variant = "node"
     /\ w.thread = "stopped"
     /\ w.msg # "inflight"
     /\ w.err # "inflight"
     /\ workers' = [workers EXCEPT ![i] = [@ EXCEPT !.thread = "exited",
                                                    !.exitArg = w.exitCode]]
     /\ errorInstance' = errorInstance
     /\ exitHandler(w.exitCode, errorInstance, promise)
     /\ UNCHANGED <<other, variant, options, aborted, preAborted, abortSpawned>>

----------------------------------------------------------------------------
Next ==
  \/ tryExecution
  \/ abort
  \/ \E i \in DOMAIN workers : startTimerFires(i)
  \/ \E i \in DOMAIN workers : timeoutTimerFires(i)
  \/ \E i \in DOMAIN workers : succeed(i)
  \/ \E i \in DOMAIN workers : throw(i)
  \/ \E i \in DOMAIN workers : crash(i)
  \/ \E i \in DOMAIN workers : threadStop(i)
  \/ \E i \in DOMAIN workers : onMessage(i)
  \/ \E i \in DOMAIN workers : onError(i)
  \/ \E i \in DOMAIN workers : onExit(i)

Spec == Init /\ [][Next]_vars

\* Fair scheduling of timers and isolate events: a pending timer fires, a
\* posted event is handled, a running computation ends one way or another,
\* a closing isolate stops.  The abort event and runtime failures are
\* external and may never happen.
Fairness ==
  /\ WF_vars(tryExecution)
  /\ WF_vars(\E i \in DOMAIN workers : startTimerFires(i))
  /\ WF_vars(\E i \in DOMAIN workers : timeoutTimerFires(i))
  /\ WF_vars(\E i \in DOMAIN workers : succeed(i) \/ throw(i))
  /\ WF_vars(\E i \in DOMAIN workers : threadStop(i))
  /\ WF_vars(\E i \in DOMAIN workers : onMessage(i))
  /\ WF_vars(\E i \in DOMAIN workers : onError(i))
  /\ WF_vars(\E i \in DOMAIN workers : onExit(i))

FairSpec == Spec /\ Fairness

----------------------------------------------------------------------------
(* Two invocations of one callable.  The callable is                       *)
(* (...params) => new Promise(executor): every invocation runs the         *)
(* executor anew, so retryCount, errorInstance, resolve/reject and the     *)
(* workers are per invocation; options (and its signal) belong to the      *)
(* createPool call and are shared.  The handlers of the two invocations    *)
(* run on one event loop, one at a time: the variables above hold the      *)
(* invocation whose handler runs next, `other` holds the second one.       *)

\* The invocation whose handlers the actions above describe.
Invocation ==
  [retryCount |-> retryCount, errorInstance |-> errorInstance,
   promise |-> promise, workers |-> workers, retryTimers |-> retryTimers,
   scheduled |-> scheduled, logged |-> logged, abortSpawned |-> abortSpawned]

\* Mutant of turnToOther: retryCount declared once in createPool, outside
\* the callable, so that both invocations count on the same variable.
turnToOtherSharedCount ==
  /\ other # NotCalled
  /\ other' = Invocation
  /\ retryCount' = retryCount
  /\ errorInstance' = other.errorInstance
  /\ promise' = other.promise
  /\ workers' = other.workers
  /\ retryTimers' = other.retryTimers
  /\ scheduled' = other.scheduled
  /\ logged' = other.logged
  /\ abortSpawned' = other.abortSpawned
  /\ UNCHANGED <<variant, options, aborted, preAborted>>

\* The event loop turns to the second invocation: the next handler to run
\* is one of its handlers, working on its closure variables.
turnToOther ==
  /\ other # NotCalled
  /\ other' = Invocation
  /\ retryCount' = other.retryCount
  /\ errorInstance' = other.errorInstance
  /\ promise' = other.promise
  /\ workers' = other.workers
  /\ retryTimers' = other.retryTimers
  /\ scheduled' = other.scheduled
  /\ logged' = other.logged
  /\ abortSpawned' = other.abortSpawned
  /\ UNCHANGED <<variant, options, aborted, preAborted>>

\* The callable is invoked twice in a row.  The exported variant, with the
\* options that make an invocation depend on nothing but its own isolates:
\* no timeout and no cancellation signal.
PoolInit ==
  /\ Called
  /\ variant = "node"
  /\ options.timeout = 0
  /\ ~options.signal
  /\ other = Invocation

\* Without timeout and signal no timeout timer and no abort listener
\* exists; the other handlers run, for either invocation.
PoolNext ==
  \/ turnToOther
  \/ tryExecution
  \/ \E i \in DOMAIN workers : startTimerFires(i)
  \/ \E i \in DOMAIN workers : succeed(i)
  \/ \E i \in DOMAIN workers : throw(i)
  \/ \E i \in DOMAIN workers : crash(i)
  \/ \E i \in DOMAIN workers : threadStop(i)
  \/ \E i \in DOMAIN workers : onMessage(i)
  \/ \E i \in DOMAIN workers : onError(i)
  \/ \E i \in DOMAIN workers : onExit(i)

PoolSpec == PoolInit /\ [][PoolNext]_vars

----------------------------------------------------------------------------
(* Vocabulary of the properties.                                           *)

Resolved(v) == [state |-> "resolved", val |-> v]
Rejected(e) == [state |-> "rejected", val |-> e]

\* exitHandler has been called for attempt i.
ExitHandled(i) == workers[i].exitArg # -1

\* Attempt i ended with a computation error and nothing else: the error the
\* runnable threw is what the caller saw first, and the isolate raised no
\* runtime failure of its own.
OnlyThrew(i) ==
  /\ workers[i].result = "cerror"
  /\ workers[i].errVal # RuntimeError(i)

\* Attempt i ended in failure: its isolate produced no success outcome and
\* exitHandler was called for it with a non-zero status.
EndedInFailure(i) ==
  /\ workers[i].msgType # "success"
  /\ workers[i].exitArg > 0

----------------------------------------------------------------------------
\* C1: thread-runtime variant: if the first isolate run delivers a success
\* message, the deferred result is resolved with exactly that value and the
\* invocation spawns exactly one isolate, whatever retriesWithIn is.
C1_FirstSuccessOneIsolate ==
  (variant = "node" /\ workers[1].result = "success")
    => /\ promise = Resolved(Value(1))
       /\ Len(workers) = 1

\* C2: both variants: when every isolate run ends with a computation error,
\* the invocation spawns exactly retriesWithIn.length + 1 isolates and then
\* rejects with the error of the last attempt; until then a retry is
\* pending and nothing has been settled.
C2_AllThrowRejectsWithLast ==
  (\A i \in DOMAIN workers : OnlyThrew(i) /\ ExitHandled(i))
    => /\ Len(workers) <= retriesWithInLength + 1
       /\ Len(workers) = retriesWithInLength + 1
            => /\ promise = Rejected(ThrownError(retriesWithInLength + 1))
               /\ retryTimers = 0
       /\ Len(workers) < retriesWithInLength + 1
            => /\ promise = Pending
               /\ retryTimers = 1

\* C2 witness: with the longest retriesWithIn, every isolate allowed was
\* spawned, all of them threw, and the promise is rejected with the error
\* of the last one.
C2_Witness ==
  /\ retriesWithInLength = MaxRetries
  /\ Len(workers) = retriesWithInLength + 1
  /\ \A i \in DOMAIN workers : OnlyThrew(i) /\ ExitHandled(i)
  /\ promise = Rejected(ThrownError(Len(workers)))

\* C3: both variants, retriesWithIn.length = k >= 1: when attempts 1..k end
\* in failure and attempt k+1 delivers a success outcome, the promise is
\* resolved with that value (not rejected) and exactly k+1 isolates exist.
C3_LastAttemptSuccessResolves ==
  ( /\ retriesWithInLength >= 1
    /\ Len(workers) >= retriesWithInLength + 1
    /\ \A i \in 1..retriesWithInLength : EndedInFailure(i)
    /\ workers[retriesWithInLength + 1].result = "success" )
    => /\ Len(workers) = retriesWithInLength + 1
       /\ promise = Resolved(Value(retriesWithInLength + 1))

\* C3 witness: with the longest retriesWithIn, every attempt but the last
\* ended in failure and the last one resolved the promise with its value.
C3_Witness ==
  /\ retriesWithInLength = MaxRetries
  /\ Len(workers) = retriesWithInLength + 1
  /\ \A i \in 1..retriesWithInLength : EndedInFailure(i)
  /\ workers[retriesWithInLength + 1].result = "success"
  /\ promise = Resolved(Value(retriesWithInLength + 1))

\* C4: both variants, fair scheduling of timers and isolate events: the
\* promise of the invocation eventually settles, whichever way the attempts
\* end.
C4_EventuallySettles == <>(promise.state # "pending")

\* C5: retryCount never exceeds retriesWithIn.length, and the invocation
\* never has more than retriesWithIn.length + 1 isolates, under every
\* interleaving of message, error, exit, timer and abort events.
C5_RetryCountBounded ==
  /\ retryCount <= retriesWithInLength
  /\ Len(workers) <= retriesWithInLength + 1
  /\ Len(workers) + retryTimers = retryCount + 1

\* C5 witness: the bound is met: every configured retry has been used and
\* the last isolate allowed has been spawned.
C5_Witness ==
  /\ retriesWithInLength = MaxRetries
  /\ retryCount = retriesWithInLength
  /\ Len(workers) = retriesWithInLength + 1

\* C6: thread-runtime variant: once the abort event has fired while an
\* isolate was active, that isolate is ended and no further isolate is
\* spawned, even when retryCount < retriesWithIn.length.
C6_NoSpawnAfterAbort ==
  (variant = "node" /\ abortSpawned > 0)
    => /\ ~Live(workers[abortSpawned])
       /\ Len(workers) = abortSpawned

\* C7: both variants: called with a signal that is already aborted, the first
\* isolate is terminated at once, never delivers an outcome, and no further
\* attempt is spawned.
C7_PreAbortedNeverRuns ==
  preAborted
    => /\ workers[1].result = "none"
       /\ Len(workers) = 1

\* The computation of attempt i never completed and its timeout timer ended
\* the isolate: no outcome and no runtime failure exist for it.
TimedOut(i) ==
  /\ workers[i].termBy = "timeout"
  /\ workers[i].msg = "none"
  /\ workers[i].err = "none"

\* C8: thread-runtime variant with timeout set: the timeout timer is started
\* at spawn; when it fires on an isolate whose computation has not
\* completed, the isolate is terminated with a non-zero status, and the
\* exit of that attempt is handled as a failure: a retry is scheduled if
\* retryCount < retriesWithIn.length, otherwise the promise is rejected
\* (a promise settled earlier stays as it is).
C8_TimeoutCountsAsFailure ==
  [][ variant = "node" =>
        /\ (Len(workers') > Len(workers) /\ options.timeout # 0)
             => workers'[Len(workers')].timeoutTimer = "pending"
        /\ \A i \in DOMAIN workers :
             /\ ( /\ workers[i].timeoutTimer = "pending"
                  /\ workers'[i].timeoutTimer = "fired"
                  /\ workers[i].thread \in {"idle", "running"} )
                  => /\ workers'[i].thread = "stopped"
                     /\ workers'[i].exitCode = 1
                     /\ TimedOut(i)'
             /\ ( /\ TimedOut(i)
                  /\ workers[i].thread = "stopped"
                  /\ workers'[i].thread = "exited" )
                  => IF retryCount < retriesWithInLength
                     THEN /\ retryCount' = retryCount + 1
                          /\ retryTimers' = retryTimers + 1
                          /\ promise' = promise
                     ELSE /\ promise'.state =
                               IF promise.state = "pending"
                               THEN "rejected" ELSE promise.state
                          /\ retryTimers' = retryTimers
                          /\ retryCount' = retryCount
    ]_vars

\* C8 witness: every attempt timed out; each but the last was retried and
\* the last one rejected the promise with the exit-code error.
C8_Witness ==
  /\ variant = "node"
  /\ retriesWithInLength = MaxRetries
  /\ Len(workers) = retriesWithInLength + 1
  /\ \A i \in DOMAIN workers : TimedOut(i) /\ workers[i].thread = "exited"
  /\ promise = Rejected(ExitCodeError(1))

\* C9 (as claimed): both variants, startTime > 0: the arguments do not reach
\* the isolate before the start timer fires, and when the abort event fires
\* before the start timer, the arguments never reach that isolate and
\* worker.postMessage(params) is never called for that attempt.
C9_NoPostAfterAbort ==
  options.startTime # 0 =>
    \A i \in DOMAIN workers :
      /\ workers[i].args => workers[i].startTimer = "fired"
      /\ workers[i].abortSaw = "pending"
           => /\ ~workers[i].args
              /\ workers[i].posts = 0

\* C9 (amended): both variants, startTime > 0: the arguments do not reach
\* the isolate before the start timer fires, and when the abort event fires
\* before the start timer, the arguments never reach that isolate: the
\* abort does not cancel the start timer, which may still fire and call
\* postMessage, but that call finds the isolate ended.
C9_NoDeliveryAfterAbort ==
  options.startTime # 0 =>
    \A i \in DOMAIN workers :
      /\ workers[i].args => workers[i].startTimer = "fired"
      /\ workers[i].posts > 0 => workers[i].startTimer = "fired"
      /\ workers[i].abortSaw = "pending"
           => /\ ~workers[i].args
              /\ ~Live(workers[i])

\* C9 witness: the abort event found the start timer pending, the timer has
\* fired since and called postMessage, and the isolate has no arguments.
C9_Witness ==
  /\ options.startTime # 0
  /\ \E i \in DOMAIN workers :
       /\ workers[i].abortSaw = "pending"
       /\ workers[i].startTimer = "fired"
       /\ workers[i].posts = 1
       /\ ~workers[i].args

\* C10: both variants: the promise is rejected only when no retry is left
\* (retryCount = retriesWithIn.length at the rejection), and a step that
\* schedules a retry leaves the promise as it was, never rejected.
C10_RejectOnlyWhenExhausted ==
  [][ /\ (promise.state # "rejected" /\ promise'.state = "rejected")
           => /\ retryCount = retriesWithInLength
              /\ retryCount' = retryCount
              /\ retryTimers' = retryTimers
      /\ retryCount' # retryCount
           => /\ promise' = promise
              /\ promise.state # "rejected"
    ]_vars

\* C10 witness: a rejection after the configured retries have all been used.
C10_Witness ==
  /\ retriesWithInLength = MaxRetries
  /\ retryCount = retriesWithInLength
  /\ promise.state = "rejected"

\* What an invocation X may have done with its own retry budget: at most
\* retriesWithIn.length retries, and one isolate per retry timer that fired.
OwnRetries(X) ==
  /\ X.retryCount <= retriesWithInLength
  /\ Len(X.workers) + X.retryTimers = X.retryCount + 1

\* C11: two interleaved invocations of one callable: a step is a handler
\* of one invocation and leaves everything the other one owns (retryCount,
\* errorInstance, its workers, its promise) as it was; each invocation
\* counts its own retries, up to retriesWithIn.length, and has spawned one
\* isolate more than the retry timers of its own that have fired.
C11_InvocationsIndependent ==
  [][ /\ \/ other' = other
         \/ (other' = Invocation /\ Invocation' = other)
      /\ OwnRetries(Invocation') /\ OwnRetries(other')
    ]_vars

\* C11 witness: both invocations used every retry of their own; one ended
\* rejected, the other resolved.
C11_Witness ==
  /\ other # NotCalled
  /\ retriesWithInLength = MaxRetries
  /\ retryCount = MaxRetries /\ Len(workers) = MaxRetries + 1
  /\ other.retryCount = MaxRetries /\ Len(other.workers) = MaxRetries + 1
  /\ promise.state = "rejected"
  /\ other.promise.state = "resolved"

\* Nothing is left to happen for attempt i: no timer of it is pending, no
\* event of it is on its way, and its isolate has ended (under
\* worker_threads: and its 'exit' event has been emitted).
AttemptOver(i) ==
  /\ workers[i].startTimer # "pending"
  /\ workers[i].timeoutTimer # "pending"
  /\ workers[i].msg # "inflight"
  /\ workers[i].err # "inflight"
  /\ workers[i].thread = IF variant = "node" THEN "exited" ELSE "stopped"

\* C12: the two variants implement the same core logic: driven by the same
\* attempt endings they spawn the same number of isolates and settle the
\* promise the same way.  For the endings "every attempt was terminated by
\* its timeout timer": once nothing is left to happen, retriesWithIn.length
\* + 1 isolates have been spawned and the promise is rejected with the
\* exit-code error, in the web variant as in the thread-runtime variant.
C12_VariantsAgree ==
  ( /\ retryTimers = 0
    /\ \A i \in DOMAIN workers : TimedOut(i) /\ AttemptOver(i) )
    => /\ Len(workers) = retriesWithInLength + 1
       /\ promise = Rejected(ExitCodeError(1))

\* C13: thread-runtime variant: success is sticky.  Once a success message
\* has resolved the promise, no step schedules a retry and no step spawns a
\* further isolate, whatever status the exit event of that isolate carries.
C13_SuccessIsSticky ==
  [][ (variant = "node" /\ promise.state = "resolved")
        => /\ retryCount' = retryCount
           /\ scheduled' = scheduled
           /\ Len(workers') = Len(workers)
    ]_vars

\* C14: both variants: once an attempt has observed a terminal event (an
\* outcome message or a runtime-error event), neither its start timer nor
\* its timeout timer is pending any more, so none of them fires afterwards.
C14_TimersClearedOnTerminalEvent ==
  \A i \in DOMAIN workers :
    workers[i].result # "none"
      => /\ workers[i].startTimer # "pending"
         /\ workers[i].timeoutTimer # "pending"

\* C15: thread-runtime variant: when the final attempt (the one made with
\* retryCount = retriesWithIn.length) was terminated with a non-zero status
\* and the caller saw neither an outcome nor a runtime-error of it, the
\* promise is rejected with the exit-code error of that attempt, whatever
\* earlier attempts recorded.
C15_GenericErrorForSilentFinalAttempt ==
  ( /\ variant = "node"
    /\ promise.state = "rejected"
    /\ Len(workers) = retriesWithInLength + 1
    /\ workers[Len(workers)].result = "none"
    /\ workers[Len(workers)].exitArg > 0 )
    => promise.val = ExitCodeError(workers[Len(workers)].exitArg)

\* The isolates of the invocation that are live: spawned, and neither
\* terminated nor at the end of their script (an isolate that has posted
\* its outcome and called close() is counted as ended).
LiveIsolates ==
  {i \in DOMAIN workers : workers[i].thread \in {"idle", "running"}}

\* C16: both variants: at most one isolate of the invocation is live in
\* every reachable state, so a retry spawns its isolate only after the
\* isolate of the previous attempt has ended, also when the previous
\* attempt failed through a runtime-error event.
C16_OneLiveIsolate == Cardinality(LiveIsolates) <= 1

\* C17: both variants: the timeout timer runs from the spawn on, also while
\* the isolate still waits for its arguments; once it has fired the isolate
\* is ended and the start timer is no longer pending; and when it fired
\* before the start timer (which it then cancelled), postMessage(params)
\* was never called and the arguments never reach that isolate.
C17_TimeoutFromSpawn ==
  \A i \in DOMAIN workers :
    /\ (options.timeout # 0 /\ workers[i].thread = "idle")
         => workers[i].timeoutTimer = "pending"
    /\ workers[i].timeoutTimer = "fired"
         => /\ ~Live(workers[i])
            /\ workers[i].startTimer # "pending"
    /\ (workers[i].timeoutTimer = "fired" /\ workers[i].startTimer = "cleared")
         => /\ ~workers[i].args
            /\ workers[i].posts = 0

\* C17 witness: the timeout timer of a retry's isolate fired while that
\* isolate was waiting for its arguments, and cancelled the start timer.
C17_Witness ==
  \E i \in DOMAIN workers :
    /\ i > 1
    /\ workers[i].timeoutTimer = "fired"
    /\ workers[i].startTimer = "cleared"
    /\ workers[i].termBy = "timeout"
    /\ ~workers[i].args

\* A message or error event of attempt i is handled in this step.
EventHandled(i) ==
  \/ workers[i].msg = "inflight" /\ workers'[i].msg = "delivered"
  \/ workers[i].err = "inflight" /\ workers'[i].err = "delivered"

\* C18: web variant: once the exit signal of an attempt has been dispatched
\* and handled by exitHandler, a message or error event of that attempt
\* that arrives afterwards changes neither the promise nor errorInstance.
C18_NoEffectAfterExit ==
  [][ variant = "web" =>
        \A i \in DOMAIN workers :
          (ExitHandled(i) /\ EventHandled(i))
            => /\ promise' = promise
               /\ errorInstance' = errorInstance
    ]_vars

\* C19: both variants: when exitHandler has been called with status 0 for
\* an attempt, the promise is resolved: the status-0 branch, which does
\* nothing, never meets a promise that is still pending.
C19_ExitZeroMeansResolved ==
  \A i \in DOMAIN workers :
    workers[i].exitArg = 0 => promise.state = "resolved"

\* C19 witness: the isolate of a retry ended with status 0, exitHandler was
\* called for it, and the promise holds the value of that attempt.
C19_Witness ==
  \E i \in DOMAIN workers :
    /\ i > 1
    /\ workers[i].exitArg = 0
    /\ promise = Resolved(Value(i))

====
